---- MODULE Spec2Model ----
(***************************************************************************)
(* Model of bpf/filter.c: the cgroup_skb egress classifier of ZTAP.        *)
(*                                                                         *)
(* A frame is a byte buffer with a declared length.  parse_ipv4 reads the  *)
(* Ethernet, IPv4 and TCP/UDP headers through bpf_skb_load_bytes, the two  *)
(* programs filter_egress and filter_egress_permissive look the derived    *)
(* key up in policy_map and return 1 (allow) or 0 (block).                 *)
(*                                                                         *)
(* The object file defines bpf_htons/bpf_ntohs as an unconditional         *)
(* __builtin_bswap16, i.e. it is written for a little-endian BPF target;   *)
(* multi-byte struct fields are therefore loaded little-endian here.       *)
(***************************************************************************)
EXTENDS Integers, Naturals, Sequences, FiniteSets, TLC

VARIABLES
    mode,        \* which of the two programs is attached
    policy_map,  \* resident entries over the modelled keys: key -> action byte
    others,      \* number of resident entries whose keys are outside Keys
    op,          \* the operation that completed last
    skb,         \* the frame of the last classification
    ret,         \* the verdict returned for skb
    cp_key,      \* key of the last control-plane call
    cp_action,   \* action of the last control-plane insert
    cp_err,      \* result of the last control-plane call
    pc,          \* per reader: position inside a concurrent classification
    r_skb,       \* per reader: frame being classified
    r_key,       \* per reader: struct policy_key key
    r_value,     \* per reader: struct policy_value *value
    r_ret,       \* per reader: returned verdict
    r_window     \* per reader: states its key had since the frame entered

vars == <<mode, policy_map, others, op, skb, ret, cp_key, cp_action, cp_err,
          pc, r_skb, r_key, r_value, r_ret, r_window>>

seqVars == <<op, skb, ret, cp_key, cp_action, cp_err>>
readerVars == <<pc, r_skb, r_key, r_value, r_ret, r_window>>

----------------------------------------------------------------------------
(* Program constants *)

ETH_P_IP == 2048
IPPROTO_TCP == 6
IPPROTO_UDP == 17
\* variant: one zero too many in the map definition
max_entries_typo == 10000 * 10

max_entries == 10000

SizeofEthhdr == 14
SizeofIphdr == 20
SizeofTcphdr == 20
SizeofUdphdr == 8

\* a null struct policy_value pointer
NULL == [found |-> FALSE]

----------------------------------------------------------------------------
(* Bounds of the model *)

MaxExplicit == 2
OtherBatch == 4999
NumReaders == 2

BufSize == 60

----------------------------------------------------------------------------
(* Byte-level helpers *)

\* __builtin_bswap16
bswap16(x) == (x % 256) * 256 + (x \div 256)

bpf_htons(x) == bswap16(x)
bpf_ntohs(x) == bswap16(x)

\* byte i (0-based) of the buffer behind the skb
Byte(s, i) == s.data[i + 1]

\* an unsigned short / unsigned int struct field as the little-endian
\* target reads it from the copied bytes
LoadU16(s, off) == Byte(s, off) + 256 * Byte(s, off + 1)
LoadU32(s, off) == Byte(s, off) + 256 * Byte(s, off + 1)
                   + 65536 * Byte(s, off + 2) + 16777216 * Byte(s, off + 3)

\* the four bytes a 32-bit value occupies in memory on the target
StoreU32(v) == << v % 256, (v \div 256) % 256, (v \div 65536) % 256,
                  (v \div 16777216) % 256 >>

\* variant: only the first byte of the range is checked against the length
LoadFails_first_byte(s, offset, len) == offset >= s.len

\* bpf_skb_load_bytes(skb, offset, to, len) < 0
LoadFails(s, offset, len) == offset + len > s.len

\* byte positions bpf_skb_load_bytes copies on success
Span(offset, len) == offset .. (offset + len - 1)

----------------------------------------------------------------------------
(* parse_ipv4 *)

\* variant: the IHL nibble is ignored, the header is taken as 20 bytes
Ihl_no_options(s) == SizeofIphdr

\* ihl as computed at lines 138-140: (version_ihl & 0x0F) * 4, at least 20
Ihl(s) ==
    LET raw == ((Byte(s, SizeofEthhdr) % 16) * 4) % 256
    IN IF raw < SizeofIphdr THEN SizeofIphdr ELSE raw

\* offset of the TCP/UDP header
L4Offset(s) == SizeofEthhdr + Ihl(s)

Fail(reads) == [rc |-> -1, reads |-> reads]

\* variant: a protocol without ports is reported as a parse failure
parse_other_unsupported(dest_ip, protocol, hdrs) == [rc |-> -1, reads |-> hdrs]

\* the branch for a protocol that is neither TCP nor UDP (lines 157-160)
parse_other(dest_ip, protocol, hdrs) ==
    [rc |-> 0, dest_ip |-> dest_ip, protocol |-> protocol,
     dest_port |-> 0, reads |-> hdrs]

parse_ipv4(s) ==
    IF LoadFails(s, 0, SizeofEthhdr) THEN Fail({})
    ELSE IF LoadU16(s, 12) # bpf_htons(ETH_P_IP)
         THEN Fail(Span(0, SizeofEthhdr))
    ELSE IF LoadFails(s, SizeofEthhdr, SizeofIphdr)
         THEN Fail(Span(0, SizeofEthhdr))
    ELSE
      LET hdrs == Span(0, SizeofEthhdr + SizeofIphdr)
          dest_ip == LoadU32(s, SizeofEthhdr + 16)
          protocol == Byte(s, SizeofEthhdr + 9)
      IN IF protocol = IPPROTO_TCP
         THEN IF LoadFails(s, L4Offset(s), SizeofTcphdr) THEN Fail(hdrs)
              ELSE [rc |-> 0, dest_ip |-> dest_ip, protocol |-> protocol,
                    dest_port |-> bpf_ntohs(LoadU16(s, L4Offset(s) + 2)),
                    reads |-> hdrs \cup Span(L4Offset(s), SizeofTcphdr)]
         ELSE IF protocol = IPPROTO_UDP
         THEN IF LoadFails(s, L4Offset(s), SizeofUdphdr) THEN Fail(hdrs)
              ELSE [rc |-> 0, dest_ip |-> dest_ip, protocol |-> protocol,
                    dest_port |-> bpf_ntohs(LoadU16(s, L4Offset(s) + 2)),
                    reads |-> hdrs \cup Span(L4Offset(s), SizeofUdphdr)]
         ELSE parse_other(dest_ip, protocol, hdrs)

----------------------------------------------------------------------------
(* Key, map lookup and the two programs *)

\* variant: the protocol member is left out of the initializer
policy_key_no_protocol(p) ==
    [dest_ip |-> p.dest_ip, dest_port |-> p.dest_port,
     protocol |-> 0, _padding |-> 0]

\* struct policy_key key = { .dest_ip, .dest_port, .protocol }: the member
\* _padding is not named and is therefore zero
policy_key(p) ==
    [dest_ip |-> p.dest_ip, dest_port |-> p.dest_port,
     protocol |-> p.protocol, _padding |-> 0]

\* bpf_map_lookup_elem(&policy_map, &key): the stored value or NULL
bpf_map_lookup_elem(map, key) ==
    IF key \in DOMAIN map THEN [found |-> TRUE, action |-> map[key]] ELSE NULL

\* variant: a miss is allowed
decide_deny_allow_miss(value) ==
    IF value.found
    THEN IF value.action = 1 THEN 1 ELSE 0
    ELSE 1

\* the decision of filter_egress once value is known
decide_deny(value) ==
    IF value.found
    THEN IF value.action = 1 THEN 1 ELSE 0
    ELSE 0

\* variant: the entry is not consulted
decide_permissive_ignore_entry(value) == 1

\* the decision of filter_egress_permissive once value is known
decide_permissive(value) ==
    IF value.found /\ value.action = 0 THEN 0 ELSE 1

\* variant: a parse failure is blocked
filter_egress_fail_closed(s, map) ==
    LET p == parse_ipv4(s)
    IN IF p.rc < 0 THEN 0
       ELSE decide_deny(bpf_map_lookup_elem(map, policy_key(p)))

filter_egress(s, map) ==
    LET p == parse_ipv4(s)
    IN IF p.rc < 0 THEN 1
       ELSE decide_deny(bpf_map_lookup_elem(map, policy_key(p)))

filter_egress_permissive(s, map) ==
    LET p == parse_ipv4(s)
    IN IF p.rc < 0 THEN 1
       ELSE decide_permissive(bpf_map_lookup_elem(map, policy_key(p)))

Run(m, s, map) ==
    IF m = "filter_egress" THEN filter_egress(s, map)
    ELSE filter_egress_permissive(s, map)

----------------------------------------------------------------------------
(* Inputs: frames, keys and action bytes *)

\* values a control plane can store in the one-byte action field
ActionBytes == {0, 1, 2}

AddrA == <<10, 0, 0, 5>>
AddrB == <<10, 0, 0, 9>>

\* a frame of declared length len in a buffer of BufSize bytes; the TCP/UDP
\* header sits after the IPv4 header and its options, every byte that is
\* not a field used below depends on its position
MkFrame(ethertype, vihl, proto, daddr, port, len) ==
    LET nib == vihl % 16
        l4 == SizeofEthhdr + 4 * (IF nib < 5 THEN 5 ELSE nib)
        byte(i) ==
            IF i = 12 THEN ethertype \div 256
            ELSE IF i = 13 THEN ethertype % 256
            ELSE IF i = 14 THEN vihl
            ELSE IF i = 23 THEN proto
            ELSE IF i \in 30..33 THEN daddr[i - 29]
            ELSE IF i = l4 + 2 THEN port \div 256
            ELSE IF i = l4 + 3 THEN port % 256
            ELSE (i * 7 + 3) % 256
    IN [data |-> [i \in 1..BufSize |-> byte(i - 1)], len |-> len]

\* the same buffer with another value in the IHL nibble
WithIhl(s, nib) ==
    [s EXCEPT !.data[SizeofEthhdr + 1] = (@ \div 16) * 16 + nib]

VersionIhls == {69, 70, 67}
Protocols == {IPPROTO_TCP, IPPROTO_UDP, 1}
Dests == {<<AddrA, 443>>, <<AddrB, 443>>, <<AddrA, 53>>}

\* declared lengths around the end of each header the parser may read
TruncLens(p) ==
    IF p = IPPROTO_TCP THEN {10, 33, 34, 53, 54, 57}
    ELSE IF p = IPPROTO_UDP THEN {13, 34, 41, 42, 45, 46}
    ELSE {14, 33, 34}

FullFrames ==
    { MkFrame(ETH_P_IP, v, p, d[1], d[2], 58) :
        v \in VersionIhls, p \in Protocols, d \in Dests }

TruncFrames ==
    UNION { { MkFrame(ETH_P_IP, v, p, AddrA, 443, n) : n \in TruncLens(p) } :
            v \in {69, 70}, p \in Protocols }

\* IPv6, and the ethertype 0x0008 whose bytes are those of 0x0800 swapped
OtherFrames ==
    { MkFrame(e, 69, IPPROTO_TCP, AddrA, 443, 58) : e \in {34525, 8} }

Frames == FullFrames \cup TruncFrames \cup OtherFrames

NoFrame == [data |-> <<>>, len |-> 0]

MkKey(daddr, port, proto, pad) ==
    [dest_ip |-> daddr[1] + 256 * daddr[2] + 65536 * daddr[3]
                 + 16777216 * daddr[4],
     dest_port |-> port, protocol |-> proto, _padding |-> pad]

Keys ==
    { MkKey(AddrA, 443, IPPROTO_TCP, 0), MkKey(AddrB, 443, IPPROTO_TCP, 0),
      MkKey(AddrA, 53, IPPROTO_TCP, 0),  MkKey(AddrA, 443, IPPROTO_UDP, 0),
      MkKey(AddrA, 0, 1, 0),             MkKey(AddrA, 443, IPPROTO_TCP, 1) }

NoKey == MkKey(<<0, 0, 0, 0>>, 0, 0, 0)

----------------------------------------------------------------------------
(* The policy table as the control plane sees it *)

\* number of resident entries
Size == Cardinality(DOMAIN policy_map) + others

\* lookup(key): {action} for a resident key, NotFound otherwise
NotFound == {}
Lookup(map, key) == IF key \in DOMAIN map THEN {map[key]} ELSE NotFound

Without(map, key) == [k \in (DOMAIN map) \ {key} |-> map[k]]
With(map, key, a) == [k \in (DOMAIN map) \cup {key} |-> IF k = key THEN a ELSE map[k]]

ResetFrame == skb' = NoFrame /\ ret' = -1

\* variant: a resident key keeps its action
Insert_no_replace(k, a) ==
    /\ \/ k \in DOMAIN policy_map
       \/ Cardinality(DOMAIN policy_map) < MaxExplicit
       \/ Size >= max_entries
    /\ IF k \notin DOMAIN policy_map /\ Size >= max_entries
       THEN /\ policy_map' = policy_map
            /\ cp_err' = "CapacityExceeded"
       ELSE /\ policy_map' = IF k \in DOMAIN policy_map THEN policy_map
                             ELSE With(policy_map, k, a)
            /\ cp_err' = "none"
    /\ op' = "insert" /\ cp_key' = k /\ cp_action' = a
    /\ ResetFrame
    /\ UNCHANGED <<mode, others>>

\* insert(key, action): upsert, CapacityExceeded for a new key in a full table
Insert(k, a) ==
    /\ \/ k \in DOMAIN policy_map
       \/ Cardinality(DOMAIN policy_map) < MaxExplicit
       \/ Size >= max_entries
    /\ IF k \notin DOMAIN policy_map /\ Size >= max_entries
       THEN /\ policy_map' = policy_map
            /\ cp_err' = "CapacityExceeded"
       ELSE /\ policy_map' = With(policy_map, k, a)
            /\ cp_err' = "none"
    /\ op' = "insert" /\ cp_key' = k /\ cp_action' = a
    /\ ResetFrame
    /\ UNCHANGED <<mode, others>>

\* remove(key): no-op for an absent key
Remove(k) ==
    /\ policy_map' = Without(policy_map, k)
    /\ cp_err' = "none"
    /\ op' = "remove" /\ cp_key' = k /\ cp_action' = -1
    /\ ResetFrame
    /\ UNCHANGED <<mode, others>>

\* a batch of OtherBatch inserts of distinct keys outside Keys, applied one
\* by one and stopped by the first CapacityExceeded
InsertOthers ==
    LET room == max_entries - Size
        n == IF room < OtherBatch THEN room ELSE OtherBatch
    IN /\ others' = others + n
       /\ cp_err' = IF n < OtherBatch THEN "CapacityExceeded" ELSE "none"
       /\ op' = "insert_others" /\ cp_key' = NoKey /\ cp_action' = -1
       /\ ResetFrame
       /\ UNCHANGED <<mode, policy_map>>

\* a batch of OtherBatch removes of keys outside Keys
RemoveOthers ==
    /\ others > 0
    /\ others' = IF others < OtherBatch THEN 0 ELSE others - OtherBatch
    /\ cp_err' = "none"
    /\ op' = "remove_others" /\ cp_key' = NoKey /\ cp_action' = -1
    /\ ResetFrame
    /\ UNCHANGED <<mode, policy_map>>

----------------------------------------------------------------------------
(* One classification, run to completion by the attached program *)

Classify(f) ==
    /\ skb' = f
    /\ ret' = Run(mode, f, policy_map)
    /\ op' = "classify" /\ cp_key' = NoKey /\ cp_action' = -1 /\ cp_err' = "none"
    /\ UNCHANGED <<mode, policy_map, others>>

Readers == 1..NumReaders

Init ==
    /\ mode \in {"filter_egress", "filter_egress_permissive"}
    /\ policy_map = [k \in {} |-> 0]
    /\ others = 0
    /\ op = "init"
    /\ skb = NoFrame /\ ret = -1
    /\ cp_key = NoKey /\ cp_action = -1 /\ cp_err = "none"
    /\ pc = [r \in Readers |-> "idle"]
    /\ r_skb = [r \in Readers |-> NoFrame]
    /\ r_key = [r \in Readers |-> NoKey]
    /\ r_value = [r \in Readers |-> NULL]
    /\ r_ret = [r \in Readers |-> -1]
    /\ r_window = [r \in Readers |-> {}]

Next ==
    \/ \E f \in Frames : Classify(f) /\ UNCHANGED readerVars
    \/ \E k \in Keys, a \in ActionBytes : Insert(k, a) /\ UNCHANGED readerVars
    \/ \E k \in Keys : Remove(k) /\ UNCHANGED readerVars

Spec == Init /\ [][Next]_vars

----------------------------------------------------------------------------
(* What a frame is on the wire, stated on its bytes alone *)

Classified == op = "classify"
P == parse_ipv4(skb)

\* ethertype bytes 0x08 0x00
WireIPv4(s) == s.len >= 14 /\ Byte(s, 12) = 8 /\ Byte(s, 13) = 0
WireProto(s) == Byte(s, 23)
WireNibble(s) == Byte(s, 14) % 16
\* where the transport header of the frame starts according to its IHL
WireL4(s) == 14 + 4 * (IF WireNibble(s) < 5 THEN 5 ELSE WireNibble(s))
WireL4Size(s) ==
    IF WireProto(s) = 6 THEN 20 ELSE IF WireProto(s) = 17 THEN 8 ELSE 0
\* big-endian 16-bit field at off
WireU16(s, off) == Byte(s, off) * 256 + Byte(s, off + 1)
WireDaddr(s) == << Byte(s, 30), Byte(s, 31), Byte(s, 32), Byte(s, 33) >>

\* the header being read does not fit in the declared length
WireTruncated(s) ==
    \/ s.len < 14
    \/ WireIPv4(s) /\ s.len < 34
    \/ /\ WireIPv4(s) /\ s.len >= 34 /\ WireProto(s) \in {6, 17}
       /\ WireL4(s) + WireL4Size(s) > s.len

WireParses(s) == WireIPv4(s) /\ ~WireTruncated(s)

WireKey(s) ==
    MkKey(WireDaddr(s),
          IF WireProto(s) \in {6, 17} THEN WireU16(s, WireL4(s) + 2) ELSE 0,
          WireProto(s), 0)

Default(m) == IF m = "filter_egress" THEN 0 ELSE 1

Hit == P.rc = 0 /\ policy_key(P) \in DOMAIN policy_map
Miss == P.rc = 0 /\ policy_key(P) \notin DOMAIN policy_map

----------------------------------------------------------------------------
(* C1: a frame whose parse fails (too short for the header being read, or  *)
(* ethertype not 0x0800) is allowed by both programs, whatever the table   *)
(* holds.                                                                  *)
C1_FailOpen ==
    Classified /\ (P.rc < 0 \/ WireTruncated(skb) \/ ~WireIPv4(skb))
    => /\ ret = 1
       /\ filter_egress(skb, policy_map) = 1
       /\ filter_egress_permissive(skb, policy_map) = 1

\* a TCP frame to 10.0.0.5:443 cut inside its TCP header, classified by the
\* default-deny program while the table blocks 10.0.0.5:443/TCP
C1_Witness ==
    /\ Classified /\ mode = "filter_egress"
    /\ WireIPv4(skb) /\ skb.len = 53 /\ WireProto(skb) = 6 /\ P.rc < 0
    /\ MkKey(AddrA, 443, 6, 0) \in DOMAIN policy_map
    /\ policy_map[MkKey(AddrA, 443, 6, 0)] = 0
    /\ ret = 1

(* C2: a frame that parses as IPv4/TCP or IPv4/UDP and whose key has no    *)
(* entry is blocked by filter_egress and allowed by                        *)
(* filter_egress_permissive.                                               *)
C2_DefaultOnMiss ==
    Classified /\ WireParses(skb) /\ WireProto(skb) \in {6, 17}
               /\ WireKey(skb) \notin DOMAIN policy_map
    => /\ P.rc = 0
       /\ ret = Default(mode)
       /\ filter_egress(skb, policy_map) = 0
       /\ filter_egress_permissive(skb, policy_map) = 1

\* a UDP frame missing a table that holds entries for other keys
C2_Witness ==
    /\ Classified /\ WireParses(skb) /\ WireProto(skb) = 17
    /\ WireKey(skb) \notin DOMAIN policy_map
    /\ policy_map # << >>
    /\ mode = "filter_egress" /\ ret = 0

(* C3 as stated: on a hit both programs return the same verdict whatever   *)
(* byte the entry's action field holds.                                    *)
C3_Original ==
    Classified /\ Hit
    => filter_egress(skb, policy_map) = filter_egress_permissive(skb, policy_map)

(* C3 amended: on a hit whose stored action is 0 or 1 both programs return *)
(* the stored action; the two verdicts differ only on a miss or on an      *)
(* entry whose action byte is neither 0 nor 1, where each program falls    *)
(* back to its default.                                                    *)
C3_HitAgree ==
    Classified /\ P.rc = 0
    => LET d == filter_egress(skb, policy_map)
           a == filter_egress_permissive(skb, policy_map)
           k == WireKey(skb)
       IN /\ (k \in DOMAIN policy_map /\ policy_map[k] \in {0, 1}
               => d = policy_map[k] /\ a = policy_map[k] /\ ret = policy_map[k])
          /\ (d # a => k \notin DOMAIN policy_map \/ policy_map[k] \notin {0, 1})
          /\ (k \in DOMAIN policy_map /\ policy_map[k] \notin {0, 1}
               => d = 0 /\ a = 1)

\* the permissive program returning Block on a Block entry
C3_Witness ==
    /\ Classified /\ Hit /\ mode = "filter_egress_permissive"
    /\ policy_map[policy_key(P)] = 0 /\ ret = 0

(* C4 as stated: the transport header is read at a fixed offset, so two    *)
(* frames that differ only in the IHL nibble have the same parse outcome   *)
(* and the same destPort.                                                  *)
C4_Original ==
    Classified /\ WireIPv4(skb) /\ skb.len >= 34 /\ WireProto(skb) \in {6, 17}
    => \A nib \in 0..15 :
         LET q == parse_ipv4(WithIhl(skb, nib))
         IN q.rc = P.rc /\ (q.rc = 0 => q.dest_port = P.dest_port)

(* C4 amended: for an IPv4 frame with protocol 6 or 17 the TCP/UDP header  *)
(* is read at 14 + max(20, 4 * IHL), an offset that depends on the IHL     *)
(* nibble of the frame and on no other field; destPort is the big-endian   *)
(* 16-bit field two bytes into that header; two frames that differ only in *)
(* the IHL nibble agree when both nibbles are at most 5.                   *)
C4_PortPosition ==
    Classified /\ WireIPv4(skb) /\ skb.len >= 34 /\ WireProto(skb) \in {6, 17}
    => /\ (P.rc = 0) = (WireL4(skb) + WireL4Size(skb) <= skb.len)
       /\ P.rc = 0 =>
            /\ P.dest_port = WireU16(skb, WireL4(skb) + 2)
            /\ P.reads = 0..33 \cup
                 (WireL4(skb) .. (WireL4(skb) + WireL4Size(skb) - 1))
       /\ \A nib \in 0..5 :
            LET q == parse_ipv4(WithIhl(skb, nib))
                r == parse_ipv4(WithIhl(skb, 5))
            IN q.rc = r.rc /\ (q.rc = 0 => q.dest_port = r.dest_port)

\* a TCP frame with one word of IPv4 options whose port 443 is found at
\* offset 40, not at offset 36
C4_Witness ==
    /\ Classified /\ WireIPv4(skb) /\ WireProto(skb) = 6
    /\ WireNibble(skb) = 6 /\ P.rc = 0 /\ P.dest_port = 443
    /\ WireU16(skb, 36) # 443

(* C5: every byte parse_ipv4 reads lies below the declared length; when    *)
(* the header about to be read does not fit, parsing fails; no value of    *)
(* the IHL nibble makes it read beyond the declared length.                *)
C5_BoundsSafe ==
    Classified
    => /\ \A i \in P.reads : i < skb.len
       /\ (WireTruncated(skb) => P.rc < 0)
       /\ \A nib \in 0..15 :
            LET q == parse_ipv4(WithIhl(skb, nib))
            IN /\ \A i \in q.reads : i < skb.len
               /\ (WireTruncated(WithIhl(skb, nib)) => q.rc < 0)

\* a TCP frame whose declared length ends one byte before the end of the
\* TCP header: both leading headers are read, the TCP header is not
C5_Witness ==
    /\ Classified /\ WireIPv4(skb) /\ WireProto(skb) = 6
    /\ WireL4(skb) + 20 = skb.len + 1
    /\ P.rc < 0 /\ P.reads = 0..33

(* C6: the lookup key of a parsed frame is the destination address as it   *)
(* lies on the wire, the port in host order, the protocol byte and a zero  *)
(* padding byte; only the entry whose key equals it decides the verdict,   *)
(* removing any other entry never changes it.                              *)
C6_ExactKey ==
    Classified /\ P.rc = 0
    => LET key == policy_key(P)
       IN /\ StoreU32(key.dest_ip) = WireDaddr(skb)
          /\ key.dest_port = WireKey(skb).dest_port
          /\ key.protocol = WireProto(skb)
          /\ key._padding = 0
          /\ \A k \in DOMAIN policy_map :
               k # WireKey(skb)
               => /\ Run(mode, skb, Without(policy_map, k)) = ret
                  /\ filter_egress(skb, Without(policy_map, k))
                       = filter_egress(skb, policy_map)
                  /\ filter_egress_permissive(skb, Without(policy_map, k))
                       = filter_egress_permissive(skb, policy_map)

\* a TCP frame to 10.0.0.5:443 blocked by default although the table allows
\* the same address and port for UDP
C6_Witness ==
    /\ Classified /\ P.rc = 0 /\ mode = "filter_egress"
    /\ policy_key(P) = MkKey(AddrA, 443, 6, 0)
    /\ policy_key(P) \notin DOMAIN policy_map
    /\ MkKey(AddrA, 443, 17, 0) \in DOMAIN policy_map
    /\ policy_map[MkKey(AddrA, 443, 17, 0)] = 1
    /\ ret = 0

(* C10: an IPv4 frame holding the Ethernet and IPv4 headers whose protocol *)
(* is neither 6 nor 17 parses with destPort 0, reading nothing after the   *)
(* IPv4 header, and is classified by the lookup of (destAddress, 0,        *)
(* protocol): blocked by filter_egress and allowed by                      *)
(* filter_egress_permissive when no entry matches.                         *)
C10_OtherProtocol ==
    Classified /\ WireIPv4(skb) /\ skb.len >= 34 /\ WireProto(skb) \notin {6, 17}
    => LET k == MkKey(WireDaddr(skb), 0, WireProto(skb), 0)
       IN /\ P.rc = 0 /\ P.dest_port = 0
          /\ P.reads = 0..33
          /\ policy_key(P) = k
          /\ (k \notin DOMAIN policy_map => ret = Default(mode))
          /\ (k \in DOMAIN policy_map /\ policy_map[k] \in {0, 1}
               => ret = policy_map[k])

\* an ICMP frame of exactly 34 bytes blocked by default
C10_Witness ==
    /\ Classified /\ WireIPv4(skb) /\ skb.len = 34 /\ WireProto(skb) = 1
    /\ P.rc = 0 /\ policy_key(P) \notin DOMAIN policy_map
    /\ mode = "filter_egress" /\ ret = 0

----------------------------------------------------------------------------
(* The table filled to its ceiling: the control plane also loads and       *)
(* unloads batches of entries for destinations outside Keys.               *)

CapKeys == { MkKey(AddrA, 443, IPPROTO_TCP, 0), MkKey(AddrA, 53, IPPROTO_TCP, 0),
             MkKey(AddrA, 443, IPPROTO_UDP, 0) }
CapFrames == { MkFrame(ETH_P_IP, 69, IPPROTO_TCP, AddrA, 443, 58),
               MkFrame(ETH_P_IP, 69, IPPROTO_UDP, AddrA, 443, 58),
               MkFrame(ETH_P_IP, 69, IPPROTO_TCP, AddrA, 443, 53) }

NextCap ==
    \/ \E f \in CapFrames : Classify(f) /\ UNCHANGED readerVars
    \/ \E k \in CapKeys, a \in {0, 1} : Insert(k, a) /\ UNCHANGED readerVars
    \/ \E k \in CapKeys : Remove(k) /\ UNCHANGED readerVars
    \/ InsertOthers /\ UNCHANGED readerVars
    \/ RemoveOthers /\ UNCHANGED readerVars

SpecCap == Init /\ [][NextCap]_vars

----------------------------------------------------------------------------
(* Concurrent classifications against a single control-plane writer.  A    *)
(* classification is split at its shared-memory accesses: the map lookup   *)
(* and the return.  A writer call replaces or unlinks a whole entry.       *)

ConcKeys == { MkKey(AddrA, 443, IPPROTO_TCP, 0) }
ConcFrames == { MkFrame(ETH_P_IP, 69, IPPROTO_TCP, AddrA, 443, 58),
                MkFrame(ETH_P_IP, 69, IPPROTO_TCP, AddrA, 443, 53) }

\* the program is entered with a frame: parse_ipv4 and the key are local
Enter(r, f) ==
    LET p == parse_ipv4(f)
    IN /\ pc[r] = "idle"
       /\ r_skb' = [r_skb EXCEPT ![r] = f]
       /\ IF p.rc < 0
          THEN /\ r_ret' = [r_ret EXCEPT ![r] = 1]
               /\ pc' = [pc EXCEPT ![r] = "done"]
               /\ UNCHANGED <<r_key, r_window>>
          ELSE /\ r_key' = [r_key EXCEPT ![r] = policy_key(p)]
               /\ r_window' = [r_window EXCEPT
                                 ![r] = {Lookup(policy_map, policy_key(p))}]
               /\ pc' = [pc EXCEPT ![r] = "lookup"]
               /\ UNCHANGED r_ret
       /\ UNCHANGED <<mode, policy_map, others, seqVars, r_value>>

\* variant: a miss is cached in the map with the program's default
LookupElem_cache_miss(r) ==
    /\ pc[r] = "lookup"
    /\ r_value' = [r_value EXCEPT
                     ![r] = bpf_map_lookup_elem(policy_map, r_key[r])]
    /\ pc' = [pc EXCEPT ![r] = "decide"]
    /\ policy_map' = IF r_key[r] \in DOMAIN policy_map THEN policy_map
                     ELSE With(policy_map, r_key[r],
                               IF mode = "filter_egress" THEN 0 ELSE 1)
    /\ UNCHANGED <<mode, others, seqVars, r_skb, r_key, r_ret, r_window>>

\* value = bpf_map_lookup_elem(&policy_map, &key)
LookupElem(r) ==
    /\ pc[r] = "lookup"
    /\ r_value' = [r_value EXCEPT
                     ![r] = bpf_map_lookup_elem(policy_map, r_key[r])]
    /\ pc' = [pc EXCEPT ![r] = "decide"]
    /\ UNCHANGED <<mode, policy_map, others, seqVars, r_skb, r_key, r_ret,
                   r_window>>

\* the branches on value and value->action, up to the return
Decide(r) ==
    /\ pc[r] = "decide"
    /\ r_ret' = [r_ret EXCEPT ![r] =
                   IF mode = "filter_egress" THEN decide_deny(r_value[r])
                   ELSE decide_permissive(r_value[r])]
    /\ pc' = [pc EXCEPT ![r] = "done"]
    /\ UNCHANGED <<mode, policy_map, others, seqVars, r_skb, r_key, r_value,
                   r_window>>

\* the call is over, its locals are gone
Return(r) ==
    /\ pc[r] = "done"
    /\ pc' = [pc EXCEPT ![r] = "idle"]
    /\ r_skb' = [r_skb EXCEPT ![r] = NoFrame]
    /\ r_key' = [r_key EXCEPT ![r] = NoKey]
    /\ r_value' = [r_value EXCEPT ![r] = NULL]
    /\ r_ret' = [r_ret EXCEPT ![r] = -1]
    /\ r_window' = [r_window EXCEPT ![r] = {}]
    /\ UNCHANGED <<mode, policy_map, others, seqVars>>

\* every classification between its entry and its lookup records the state
\* a writer call leaves its key in
Observe ==
    /\ r_window' = [r \in Readers |->
                      IF pc[r] = "lookup"
                      THEN r_window[r] \cup {Lookup(policy_map', r_key[r])}
                      ELSE r_window[r]]
    /\ UNCHANGED <<pc, r_skb, r_key, r_value, r_ret>>

NextConc ==
    \/ \E r \in Readers, f \in ConcFrames : Enter(r, f)
    \/ \E r \in Readers : LookupElem(r)
    \/ \E r \in Readers : Decide(r)
    \/ \E r \in Readers : Return(r)
    \/ \E k \in ConcKeys, a \in {0, 1} : Insert(k, a) /\ Observe
    \/ \E k \in ConcKeys : Remove(k) /\ Observe

SpecConc == Init /\ [][NextConc]_vars

----------------------------------------------------------------------------
(* C7: below capacity, insert(key, action) followed by lookup(key) gives   *)
(* that action, also when the key was present; remove(key) followed by     *)
(* lookup(key) gives NotFound; remove of an absent key changes nothing and *)
(* is not an error.                                                        *)
C7_RoundTrip ==
    [][ /\ (op' = "insert" /\ Size < max_entries
            => /\ cp_err' = "none"
               /\ Lookup(policy_map', cp_key') = {cp_action'}
               /\ bpf_map_lookup_elem(policy_map', cp_key')
                    = [found |-> TRUE, action |-> cp_action'])
        /\ (op' = "remove"
            => /\ cp_err' = "none"
               /\ Lookup(policy_map', cp_key') = NotFound
               /\ bpf_map_lookup_elem(policy_map', cp_key') = NULL
               /\ (cp_key' \notin DOMAIN policy_map
                    => policy_map' = policy_map /\ others' = others)) ]_vars

\* an insert that has replaced the action of a resident key while the
\* table holds thousands of other entries
C7_Witness ==
    /\ op = "insert" /\ cp_err = "none" /\ cp_action = 0
    /\ policy_map[cp_key] = 0
    /\ Cardinality(DOMAIN policy_map) = 2 /\ others > 0 /\ Size < max_entries

(* C8: the table never holds more than 10,000 keys; an insert of a new key *)
(* into a table of 10,000 keys fails with CapacityExceeded, keeps every    *)
(* entry and its action, and leaves the verdict of every frame as it was.  *)
C8_Capacity ==
    [][ /\ Cardinality(DOMAIN policy_map') + others' <= 10000
        /\ (op' = "insert" /\ cp_key' \notin DOMAIN policy_map
                           /\ Cardinality(DOMAIN policy_map) + others >= 10000
            => /\ cp_err' = "CapacityExceeded"
               /\ policy_map' = policy_map /\ others' = others
               /\ \A f \in CapFrames :
                    Run(mode', f, policy_map') = Run(mode, f, policy_map)) ]_vars

\* a refused insert into a table of exactly 10,000 entries
C8_Witness ==
    /\ op = "insert" /\ cp_err = "CapacityExceeded"
    /\ cp_key \notin DOMAIN policy_map
    /\ DOMAIN policy_map # {}
    /\ Cardinality(DOMAIN policy_map) + others = 10000

(* C9: with any interleaving of classifications and writer calls, the      *)
(* entry a classification observes for its key is a whole state the key    *)
(* had while the classification ran (an action the writer stored, or       *)
(* absent), its verdict is the one of that observation, and no step of a   *)
(* classification changes the table.                                       *)
Observed(v) == IF v.found THEN {v.action} ELSE NotFound

C9_Atomic ==
    [][ /\ \A r \in Readers :
             /\ (pc'[r] \in {"decide", "done"} /\ parse_ipv4(r_skb'[r]).rc = 0
                 => Observed(r_value'[r]) \in r_window'[r])
             /\ (pc'[r] = "done" /\ parse_ipv4(r_skb'[r]).rc = 0
                 => r_ret'[r] = IF mode = "filter_egress"
                                THEN decide_deny(r_value'[r])
                                ELSE decide_permissive(r_value'[r]))
        /\ (pc' # pc => policy_map' = policy_map /\ others' = others) ]_vars

\* a classification that has looked its key up after the writer changed
\* the entry during the classification, next to a second one in flight
C9_Witness ==
    \E r \in Readers, q \in Readers :
        /\ r # q
        /\ pc[r] = "decide" /\ Cardinality(r_window[r]) >= 2
        /\ r_value[r].found /\ pc[q] = "lookup"

====
